---- MODULE Spec2Model ----
(***************************************************************************)
(* Model of the 800 m race pace calculator (pace_calc.py, pace_app.py).    *)
(*                                                                         *)
(* Python floats are modelled as fixed-point integers, every operation     *)
(* rounding down to the resolution of its result:                          *)
(*   seconds (parse_time)            1/Milli s                             *)
(*   speeds (mps, segment_mps)       1/Milli m/s                           *)
(*   relative speed percentages      1/PctScale %                          *)
(*   integrated times (total_time)   1/TickPerSec s                        *)
(*   a float distance                [m |-> whole metres (floor),          *)
(*                                    sub |-> the rest in 1/SubPerMetre m] *)
(* The command line and the web form are the two front ends; the three     *)
(* functions of pace_calc.py are also entered directly, as a library.      *)
(***************************************************************************)
EXTENDS Integers, Sequences, FiniteSets, TLC

VARIABLES
    entry,          \* "main" | "app" | "get_relative_speed" | "calculate_split_time"
    pc,             \* position in the code
    outcome,        \* "none" or the exception / exit that ended the run
    arg_distance,   \* args.distance (main), distance (app)
    arg_time,       \* args.time (main), time_str (app): a text
    arg_pattern,    \* args.pattern (main), pattern_choice (app), the library's pattern
    total_sec,      \* main / app: total_sec
    mps,            \* main / app: mps
    pattern_keys,   \* main / app: pattern_keys
    ki,             \* position of `for key in pattern_keys`
    all_results,    \* main / app: all_results, in insertion order
    cs,             \* the frame of calc_splits (seg_lens: the history of seg_len)
    it,             \* the frame of calculate_split_time
    lk,             \* the frame of a direct get_relative_speed call
    n_integ         \* history: unit steps of the integration executed in this run

vars == <<entry, pc, outcome, arg_distance, arg_time, arg_pattern, total_sec, mps,
          pattern_keys, ki, all_results, cs, it, lk, n_integ>>

-----------------------------------------------------------------------------
(* Resolutions of the fixed-point model of float.                          *)

Milli == 1000
PctScale == 100
TickPerSec == 10000
SubPerMetre == 2000000000

(* 1e-9 m of line 106, in 1/SubPerMetre m.                                  *)
EpsSub == 2

(* Bounds of the library calls explored.                                   *)
MaxRangeLen == 4
MaxBeyond == 3

-----------------------------------------------------------------------------
(* Float distances.                                                        *)

Metres(n) == [m |-> n, sub |-> 0]
JustBelow(n, s) == [m |-> n - 1, sub |-> SubPerMetre - s]
Half(n) == [m |-> n, sub |-> SubPerMetre \div 2]

(* int(x): truncation toward zero.                                         *)
IntOf(x) == IF x.m < 0 /\ x.sub > 0 THEN x.m + 1 ELSE x.m

(* start <= x < end for integer start, end and a float x.                  *)
InInterval(start, x, end) == start <= x.m /\ x.m < end

(* end < distance: the boundary equal to the distance left out.            *)
LessThan(end, distance) ==
    end < distance.m \/ (end = distance.m /\ distance.sub > 0)

(* end <= distance + 1e-9 for an integer end.                              *)
LeqWithEps(end, distance) ==
    \/ end <= distance.m
    \/ end = distance.m + 1 /\ distance.sub + EpsSub >= SubPerMetre

(* A float distance in 1/Milli m.                                          *)
DistMilli(x) == x.m * Milli + x.sub \div (SubPerMetre \div Milli)

-----------------------------------------------------------------------------
(* The tables of pace_calc.py.  A dict is its items in insertion order;    *)
(* a percentage is held in 1/PctScale %.                                   *)

SECTIONS ==
    << <<0, 120>>, <<120, 200>>, <<200, 300>>, <<300, 400>>,
       <<400, 500>>, <<500, 600>>, <<600, 700>>, <<700, 800>> >>

RACE_PATTERN_ALL ==
    << <<0, 120, 10337>>, <<120, 200, 10499>>, <<200, 300, 10034>>, <<300, 400, 9848>>,
       <<400, 500, 9848>>, <<500, 600, 9953>>, <<600, 700, 9875>>, <<700, 800, 9745>> >>

RACE_PATTERN_POS ==
    << <<0, 120, 10434>>, <<120, 200, 10583>>, <<200, 300, 10171>>, <<300, 400, 9939>>,
       <<400, 500, 9912>>, <<500, 600, 9894>>, <<600, 700, 9744>>, <<700, 800, 9507>> >>

(* The MED table with a mistyped start: 410 for 400 leaves [400, 410) out. *)
RACE_PATTERN_MED_gap ==
    << <<0, 120, 10268>>, <<120, 200, 10489>>, <<200, 300, 10034>>, <<300, 400, 9847>>,
       <<410, 500, 9729>>, <<500, 600, 9875>>, <<600, 700, 9965>>, <<700, 800, 9939>> >>

RACE_PATTERN_MED ==
    << <<0, 120, 10268>>, <<120, 200, 10489>>, <<200, 300, 10034>>, <<300, 400, 9847>>,
       <<400, 500, 9729>>, <<500, 600, 9875>>, <<600, 700, 9965>>, <<700, 800, 9939>> >>

RACE_PATTERN_NEG ==
    << <<0, 120, 10206>>, <<120, 200, 10348>>, <<200, 300, 9780>>, <<300, 400, 9681>>,
       <<400, 500, 9816>>, <<500, 600, 10120>>, <<600, 700, 10053>>, <<700, 800, 10046>> >>

PATTERNS ==
    [k \in {"ALL", "POS", "MED", "NEG"} |->
        CASE k = "ALL" -> RACE_PATTERN_ALL
          [] k = "POS" -> RACE_PATTERN_POS
          [] k = "MED" -> RACE_PATTERN_MED
          [] k = "NEG" -> RACE_PATTERN_NEG]

(* list(PATTERNS.keys()): the keys in insertion order.                     *)
PatternKeyList == <<"ALL", "POS", "MED", "NEG">>

(* No choices=: every text is accepted as --pattern.                       *)
AnyChoice == {"POS", "MED", "NEG", "ALL", "XYZ"}

(* choices= of the --pattern argument of main.                             *)
Choices == {"POS", "MED", "NEG", "ALL"}

(* options= of the Race Pattern radio of the web form.                     *)
RadioOptions == {"ALL", "POS", "MED", "NEG"}

-----------------------------------------------------------------------------
(* parse_time.  A text is a sequence of characters.                        *)

Digits == {"0", "1", "2", "3", "4", "5", "6", "7", "8", "9"}

DigitVal(c) ==
    CASE c = "0" -> 0 [] c = "1" -> 1 [] c = "2" -> 2 [] c = "3" -> 3 [] c = "4" -> 4
      [] c = "5" -> 5 [] c = "6" -> 6 [] c = "7" -> 7 [] c = "8" -> 8 [] c = "9" -> 9

Chars(s) == {s[i] : i \in 1..Len(s)}

AllDigits(s) == \A i \in 1..Len(s) : s[i] \in Digits

(* The value of a run of digits.                                           *)
RECURSIVE DigitsVal(_)
DigitsVal(s) ==
    IF s = <<>> THEN 0
    ELSE 10 * DigitsVal(SubSeq(s, 1, Len(s) - 1)) + DigitVal(s[Len(s)])

(* ts.split(sep).                                                          *)
RECURSIVE Split(_, _)
Split(ts, sep) ==
    IF \A i \in 1..Len(ts) : ts[i] # sep THEN <<ts>>
    ELSE LET i == CHOOSE j \in 1..Len(ts) :
                      ts[j] = sep /\ \A k \in 1..(j - 1) : ts[k] # sep
         IN  <<SubSeq(ts, 1, i - 1)>> \o Split(SubSeq(ts, i + 1, Len(ts)), sep)

Unsigned(s) == IF s # <<>> /\ s[1] = "-" THEN Tail(s) ELSE s
Sign(s) == IF s # <<>> /\ s[1] = "-" THEN -1 ELSE 1

(* int(s) accepts an optional sign and at least one digit.                 *)
IsIntLit(s) == Unsigned(s) # <<>> /\ AllDigits(Unsigned(s))
IntVal(s) == Sign(s) * DigitsVal(Unsigned(s))

(* float(s) accepts an optional sign, digits with at most one point, and   *)
(* at least one digit.                                                     *)
IsFloatLit(s) ==
    LET parts == Split(Unsigned(s), ".")
    IN  /\ Len(parts) \in {1, 2}
        /\ \A i \in 1..Len(parts) : AllDigits(parts[i])
        /\ \E i \in 1..Len(parts) : parts[i] # <<>>

(* The fraction digits of a literal in 1/Milli, the digits beyond dropped. *)
FracMilli(f) ==
    LET three == SubSeq(f \o <<"0", "0", "0">>, 1, 3)
    IN  (DigitsVal(three) * Milli) \div 1000

FloatVal(s) ==
    LET parts == Split(Unsigned(s), ".")
        whole == DigitsVal(parts[1]) * Milli
        frac  == IF Len(parts) = 2 THEN FracMilli(parts[2]) ELSE 0
    IN  Sign(s) * (whole + frac)

ValueError == [ok |-> FALSE, val |-> 0]
Returns(v) == [ok |-> TRUE, val |-> v]

parse_time(ts) ==
    IF ":" \in Chars(ts)
    THEN LET parts == Split(ts, ":")
         IN  IF Len(parts) # 2 THEN ValueError
             ELSE IF ~IsIntLit(parts[1]) THEN ValueError
             ELSE IF ~IsFloatLit(parts[2]) THEN ValueError
             ELSE Returns(IntVal(parts[1]) * 60 * Milli + FloatVal(parts[2]))
    ELSE IF IsFloatLit(ts) THEN Returns(FloatVal(ts)) ELSE ValueError

-----------------------------------------------------------------------------
(* get_relative_speed: the scan of pattern.items() from item i on, and the *)
(* last value when the loop ends without a return.                         *)

(* The scan with the interval closed at its end: start <= d <= end.         *)
RECURSIVE ScanItemsClosed(_, _, _)
ScanItemsClosed(distance_m, pattern, i) ==
    IF i > Len(pattern) THEN pattern[Len(pattern)][3]
    ELSE IF pattern[i][1] <= distance_m.m
            /\ (distance_m.m < pattern[i][2]
                \/ (distance_m.m = pattern[i][2] /\ distance_m.sub = 0))
         THEN pattern[i][3]
    ELSE ScanItemsClosed(distance_m, pattern, i + 1)

get_relative_speed_closed(distance_m, pattern) == ScanItemsClosed(distance_m, pattern, 1)

RECURSIVE ScanItems(_, _, _)
ScanItems(distance_m, pattern, i) ==
    IF i > Len(pattern) THEN pattern[Len(pattern)][3]
    ELSE IF InInterval(pattern[i][1], distance_m, pattern[i][2]) THEN pattern[i][3]
    ELSE ScanItems(distance_m, pattern, i + 1)

get_relative_speed(distance_m, pattern) == ScanItems(distance_m, pattern, 1)

-----------------------------------------------------------------------------
(* The arithmetic of calculate_split_time, calc_splits, main and the form. *)

(* get_relative_speed(d, pattern) / 100.0, in 1/(100 * PctScale).          *)
RelSpeed(d, pattern) == get_relative_speed(Metres(d), pattern)

(* avg_mps / rel_speed: the relative speed applied the wrong way round.    *)
ActualMpsInverse(avg_mps, rel_speed) == (avg_mps * 100 * PctScale) \div rel_speed

(* avg_mps * rel_speed, in 1/Milli m/s.                                    *)
ActualMps(avg_mps, rel_speed) == (avg_mps * rel_speed) \div (100 * PctScale)

(* 1.0 / actual_mps, in 1/TickPerSec s.                                    *)
UnitTime(actual_mps) == (TickPerSec * Milli) \div actual_mps

(* seg_len / split_time, in 1/Milli m/s.                                   *)
SegmentMps(seg_len, split_time) == (seg_len * TickPerSec * Milli) \div split_time

(* seg_len = d: the previous boundary forgotten.                           *)
SegLenFromStart(d, prev_d) == d

(* seg_len = d - prev_d                                                    *)
SegLen(d, prev_d) == d - prev_d

(* acc = split_time: the running total overwritten.                        *)
AccumulateOverwrite(acc, split_time) == split_time

(* acc += split_time                                                       *)
Accumulate(acc, split_time) == acc + split_time

(* distance / total_sec, in 1/Milli m/s.                                   *)
Mps(distance, seconds) == (DistMilli(distance) * Milli) \div seconds

(* f"{int(prev_d)}~{int(d)}m"                                              *)
Label(prev_d, d) == ToString(prev_d) \o "~" \o ToString(d) \o "m"

(* [end for (start, end) in SECTIONS if end <= distance + 1e-9]            *)
RECURSIVE EndsFrom(_, _)
EndsFrom(distance, i) ==
    IF i > Len(SECTIONS) THEN <<>>
    ELSE (IF LeqWithEps(SECTIONS[i][2], distance) THEN <<SECTIONS[i][2]>> ELSE <<>>)
         \o EndsFrom(distance, i + 1)

SplitPoints(distance) == EndsFrom(distance, 1)

(* list(PATTERNS.keys()) if selected == "ALL" else [selected]              *)
PatternKeys(selected) == IF selected = "ALL" THEN PatternKeyList ELSE <<selected>>

-----------------------------------------------------------------------------
(* Frames.                                                                 *)

NoSplits ==
    [distance |-> Metres(0), mps |-> 0, pattern |-> "ALL", split_points |-> <<>>,
     i |-> 1, acc |-> 0, prev_d |-> 0, labels |-> <<>>, speeds |-> <<>>, times |-> <<>>,
     seg_len |-> 0, split_time |-> 0, segment_mps |-> 0, seg_lens |-> <<>>,
     returned |-> FALSE]

NoIntegration ==
    [start_m |-> Metres(0), end_m |-> Metres(0), avg_mps |-> 0, pattern |-> "ALL",
     total_time |-> 0, d |-> 0, rel_speed |-> 0, actual_mps |-> 0, steps |-> 0,
     returned |-> FALSE]

NoLookup == [distance_m |-> Metres(0), result |-> 0, returned |-> FALSE]

(* def calc_splits(distance, mps, pattern): lines 106-111.                 *)
EnterCalcSplits(distance, avg, pattern) ==
    [NoSplits EXCEPT !.distance = distance, !.mps = avg, !.pattern = pattern,
                     !.split_points = SplitPoints(distance)]

(* The frame with the range started one unit late.                         *)
EnterSplitTimeLate(start_m, end_m, avg_mps, pattern) ==
    [NoIntegration EXCEPT !.start_m = start_m, !.end_m = end_m, !.avg_mps = avg_mps,
                          !.pattern = pattern, !.d = IntOf(start_m) + 1]

(* def calculate_split_time(start_m, end_m, avg_mps, pattern): lines 97-98.*)
EnterSplitTime(start_m, end_m, avg_mps, pattern) ==
    [NoIntegration EXCEPT !.start_m = start_m, !.end_m = end_m, !.avg_mps = avg_mps,
                          !.pattern = pattern, !.d = IntOf(start_m)]

-----------------------------------------------------------------------------
(* The inputs explored.                                                    *)

T_2_01_35 == <<"2", ":", "0", "1", ".", "3", "5">>
T_121_35 == <<"1", "2", "1", ".", "3", "5">>
T_3_20 == <<"3", ":", "2", "0">>
T_abc == <<"a", "b", "c">>
T_0 == <<"0">>
T_neg5 == <<"-", "5">>
T_0_00 == <<"0", ":", "0", "0">>
T_1_2_3 == <<"1", ":", "2", ":", "3">>
T_colon30 == <<":", "3", "0">>
T_1colon == <<"1", ":">>

TimeTexts ==
    {T_2_01_35, T_121_35, T_3_20, T_abc, T_0, T_neg5, T_0_00, T_1_2_3, T_colon30, T_1colon}

MainDistances ==
    {Metres(0), Metres(100), JustBelow(120, 2000), JustBelow(120, 1), Metres(120),
     Half(250), Metres(800), Metres(1000), Metres(-800)}

MainPatterns == Choices \cup {"XYZ"}

(* distance = 800.0 of the web form.                                       *)
AppDistance == Metres(800)

LookupPoints ==
    {Metres(n) : n \in 0..(800 + MaxBeyond)} \cup {Half(n) : n \in 0..(800 + MaxBeyond)}

RangeStarts == {0, 100, 118, 798}

RangeArgs ==
    {<<a, b>> : a \in {Metres(s) : s \in RangeStarts} \cup {Half(s) : s \in RangeStarts},
                b \in {Metres(e) : e \in 0..(800 + MaxRangeLen)}
                      \cup {Half(e) : e \in 0..(800 + MaxRangeLen)}}

LibRanges ==
    {r \in RangeArgs : r[2].m - r[1].m \in (0 - MaxRangeLen)..MaxRangeLen}

LibSpeeds == {0, 5000, 6592}

-----------------------------------------------------------------------------
(* The state after start-up: one run of one entry point on one input.      *)

Idle ==
    /\ outcome = "none"
    /\ total_sec = 0 /\ mps = 0
    /\ pattern_keys = <<>> /\ ki = 1 /\ all_results = <<>>
    /\ cs = NoSplits
    /\ n_integ = 0

InitMain ==
    /\ entry = "main" /\ pc = "main_args"
    /\ arg_distance \in MainDistances
    /\ arg_time \in TimeTexts
    /\ arg_pattern \in MainPatterns
    /\ it = NoIntegration /\ lk = NoLookup
    /\ Idle

InitApp ==
    /\ entry = "app" /\ pc = "app_parse"
    /\ arg_distance = AppDistance
    /\ arg_time \in TimeTexts
    /\ arg_pattern \in RadioOptions
    /\ it = NoIntegration /\ lk = NoLookup
    /\ Idle

InitLookup ==
    /\ entry = "get_relative_speed" /\ pc = "lookup"
    /\ arg_distance = Metres(0) /\ arg_time = <<>>
    /\ arg_pattern \in DOMAIN PATTERNS
    /\ \E x \in LookupPoints : lk = [NoLookup EXCEPT !.distance_m = x]
    /\ it = NoIntegration
    /\ Idle

InitSplitTime ==
    /\ entry = "calculate_split_time" /\ pc = "it_for"
    /\ arg_distance = Metres(0) /\ arg_time = <<>>
    /\ arg_pattern \in DOMAIN PATTERNS
    /\ \E r \in LibRanges, v \in LibSpeeds :
           it = EnterSplitTime(r[1], r[2], v, arg_pattern)
    /\ lk = NoLookup
    /\ Idle

Init == InitMain \/ InitApp \/ InitLookup \/ InitSplitTime

-----------------------------------------------------------------------------
(* main, lines 134-139: argparse rejects a --pattern outside choices and   *)
(* exits with status 2.                                                    *)
MainParseArgs ==
    /\ entry = "main" /\ pc = "main_args"
    /\ IF arg_pattern \in Choices
       THEN pc' = "main_parse" /\ outcome' = outcome
       ELSE pc' = "exit" /\ outcome' = "ArgumentError"
    /\ UNCHANGED <<entry, arg_distance, arg_time, arg_pattern, total_sec, mps,
                   pattern_keys, ki, all_results, cs, it, lk, n_integ>>

(* main, line 141.                                                         *)
MainParseTime ==
    /\ entry = "main" /\ pc = "main_parse"
    /\ LET r == parse_time(arg_time)
       IN  IF r.ok
           THEN pc' = "main_mps" /\ total_sec' = r.val /\ outcome' = outcome
           ELSE pc' = "exit" /\ total_sec' = total_sec /\ outcome' = "ValueError"
    /\ UNCHANGED <<entry, arg_distance, arg_time, arg_pattern, mps,
                   pattern_keys, ki, all_results, cs, it, lk, n_integ>>

(* main, lines 142-157: mps, pace_per_km = 1000 / mps, pattern_keys.       *)
MainMps ==
    /\ entry = "main" /\ pc = "main_mps"
    /\ IF total_sec = 0 \/ Mps(arg_distance, total_sec) = 0
       THEN /\ pc' = "exit" /\ outcome' = "ZeroDivisionError"
            /\ mps' = IF total_sec = 0 THEN mps ELSE 0
            /\ UNCHANGED pattern_keys
       ELSE /\ pc' = "keys" /\ outcome' = outcome
            /\ mps' = Mps(arg_distance, total_sec)
            /\ pattern_keys' = PatternKeys(arg_pattern)
    /\ UNCHANGED <<entry, arg_distance, arg_time, arg_pattern, total_sec,
                   ki, all_results, cs, it, lk, n_integ>>

(* pace_app.py, lines 48-52: a ValueError is shown and the script stops.   *)
AppParseTime ==
    /\ entry = "app" /\ pc = "app_parse"
    /\ LET r == parse_time(arg_time)
       IN  IF r.ok
           THEN pc' = "app_check" /\ total_sec' = r.val /\ outcome' = outcome
           ELSE pc' = "stop" /\ total_sec' = total_sec /\ outcome' = "TimeFormatError"
    /\ UNCHANGED <<entry, arg_distance, arg_time, arg_pattern, mps,
                   pattern_keys, ki, all_results, cs, it, lk, n_integ>>

(* pace_app.py, lines 54-56.                                               *)
AppCheckTime ==
    /\ entry = "app" /\ pc = "app_check"
    /\ IF total_sec <= 0
       THEN pc' = "stop" /\ outcome' = "TimeNotPositive"
       ELSE pc' = "app_mps" /\ outcome' = outcome
    /\ UNCHANGED <<entry, arg_distance, arg_time, arg_pattern, total_sec, mps,
                   pattern_keys, ki, all_results, cs, it, lk, n_integ>>

(* pace_app.py, lines 58-75.                                               *)
AppMps ==
    /\ entry = "app" /\ pc = "app_mps"
    /\ IF Mps(arg_distance, total_sec) = 0
       THEN pc' = "exit" /\ outcome' = "ZeroDivisionError" /\ UNCHANGED pattern_keys
       ELSE /\ pc' = "keys" /\ outcome' = outcome
            /\ pattern_keys' = PatternKeys(arg_pattern)
    /\ mps' = Mps(arg_distance, total_sec)
    /\ UNCHANGED <<entry, arg_distance, arg_time, arg_pattern, total_sec,
                   ki, all_results, cs, it, lk, n_integ>>

(* for key in pattern_keys: calc_splits(distance, mps, PATTERNS[key]),     *)
(* main line 159, pace_app.py line 77.                                     *)
NextKey ==
    /\ pc = "keys" /\ ki <= Len(pattern_keys)
    /\ IF pattern_keys[ki] \in DOMAIN PATTERNS
       THEN /\ pc' = "cs_for" /\ outcome' = outcome
            /\ cs' = EnterCalcSplits(arg_distance, mps, pattern_keys[ki])
       ELSE /\ pc' = "exit" /\ outcome' = "KeyError"
            /\ cs' = cs
    /\ UNCHANGED <<entry, arg_distance, arg_time, arg_pattern, total_sec, mps,
                   pattern_keys, ki, all_results, it, lk, n_integ>>

(* The loop over pattern_keys is exhausted: the chart and the tables.      *)
Finish ==
    /\ pc = "keys" /\ ki > Len(pattern_keys)
    /\ pc' = "done"
    /\ UNCHANGED <<entry, outcome, arg_distance, arg_time, arg_pattern, total_sec, mps,
                   pattern_keys, ki, all_results, cs, it, lk, n_integ>>

(* calc_splits, lines 113-115: the next d of split_points, seg_len, and    *)
(* the call of calculate_split_time(prev_d, d, mps, pattern).              *)
NextSection ==
    /\ pc = "cs_for" /\ cs.i <= Len(cs.split_points)
    /\ LET d == cs.split_points[cs.i]
       IN  /\ cs' = [cs EXCEPT !.seg_len = SegLen(d, cs.prev_d)]
           /\ it' = EnterSplitTime(Metres(cs.prev_d), Metres(d), cs.mps, cs.pattern)
    /\ pc' = "it_for"
    /\ UNCHANGED <<entry, outcome, arg_distance, arg_time, arg_pattern, total_sec, mps,
                   pattern_keys, ki, all_results, lk, n_integ>>

(* What main and the form keep of a result, lines 161 and 78.              *)
Kept(key, frame) ==
    IF entry = "main"
    THEN [key |-> key, labels |-> frame.labels, speeds |-> frame.speeds]
    ELSE [key |-> key, labels |-> frame.labels, speeds |-> frame.speeds,
          times |-> frame.times]

(* calc_splits, line 123, and the caller's all_results[key] = ...          *)
SplitsReturn ==
    /\ pc = "cs_for" /\ cs.i > Len(cs.split_points)
    /\ cs' = [cs EXCEPT !.returned = TRUE]
    /\ all_results' = Append(all_results, Kept(pattern_keys[ki], cs))
    /\ ki' = ki + 1
    /\ pc' = "keys"
    /\ UNCHANGED <<entry, outcome, arg_distance, arg_time, arg_pattern, total_sec, mps,
                   pattern_keys, it, lk, n_integ>>

(* calculate_split_time, lines 98-101: one d of range(int(start_m),        *)
(* int(end_m)).                                                            *)
IntegrateStep ==
    /\ pc = "it_for" /\ it.d < IntOf(it.end_m)
    /\ LET rel_speed  == RelSpeed(it.d, PATTERNS[it.pattern])
           actual_mps == ActualMps(it.avg_mps, rel_speed)
       IN  IF actual_mps = 0
           THEN /\ it' = [it EXCEPT !.rel_speed = rel_speed, !.actual_mps = actual_mps,
                                    !.steps = @ + 1]
                /\ pc' = "exit" /\ outcome' = "ZeroDivisionError"
           ELSE /\ it' = [it EXCEPT !.rel_speed = rel_speed, !.actual_mps = actual_mps,
                                    !.total_time = @ + UnitTime(actual_mps),
                                    !.d = @ + 1, !.steps = @ + 1]
                /\ pc' = pc /\ outcome' = outcome
    /\ n_integ' = n_integ + 1
    /\ UNCHANGED <<entry, arg_distance, arg_time, arg_pattern, total_sec, mps,
                   pattern_keys, ki, all_results, cs, lk>>

(* calculate_split_time, line 102, and in calc_splits lines 116-121.       *)
SplitTimeReturn ==
    /\ pc = "it_for" /\ it.d >= IntOf(it.end_m)
    /\ it' = [it EXCEPT !.returned = TRUE]
    /\ IF entry = "calculate_split_time"
       THEN pc' = "done" /\ UNCHANGED <<outcome, cs>>
       ELSE LET d == cs.split_points[cs.i]
                split_time == it.total_time
                acc == Accumulate(cs.acc, split_time)
            IN  IF split_time = 0
                THEN /\ pc' = "exit" /\ outcome' = "ZeroDivisionError"
                     /\ cs' = [cs EXCEPT !.split_time = split_time, !.acc = acc]
                ELSE /\ pc' = "cs_for" /\ outcome' = outcome
                     /\ cs' = [cs EXCEPT
                                 !.split_time = split_time,
                                 !.acc = acc,
                                 !.segment_mps = SegmentMps(cs.seg_len, split_time),
                                 !.labels = Append(@, Label(IntOf(Metres(cs.prev_d)),
                                                            IntOf(Metres(d)))),
                                 !.speeds = Append(@, SegmentMps(cs.seg_len, split_time)),
                                 !.times = Append(@, acc),
                                 !.seg_lens = Append(@, cs.seg_len),
                                 !.prev_d = d,
                                 !.i = @ + 1]
    /\ UNCHANGED <<entry, arg_distance, arg_time, arg_pattern, total_sec, mps,
                   pattern_keys, ki, all_results, lk, n_integ>>

(* A direct call of get_relative_speed(distance_m, pattern).               *)
LookupCall ==
    /\ entry = "get_relative_speed" /\ pc = "lookup"
    /\ lk' = [lk EXCEPT !.result = get_relative_speed(lk.distance_m, PATTERNS[arg_pattern]),
                        !.returned = TRUE]
    /\ pc' = "done"
    /\ UNCHANGED <<entry, outcome, arg_distance, arg_time, arg_pattern, total_sec, mps,
                   pattern_keys, ki, all_results, cs, it, n_integ>>

Next ==
    \/ MainParseArgs \/ MainParseTime \/ MainMps
    \/ AppParseTime \/ AppCheckTime \/ AppMps
    \/ NextKey \/ Finish
    \/ NextSection \/ SplitsReturn
    \/ IntegrateStep \/ SplitTimeReturn
    \/ LookupCall

Spec == Init /\ [][Next]_vars

-----------------------------------------------------------------------------
(* The properties checked.                                                 *)

(* floor(x) of a float distance.                                           *)
Floor(x) == x.m

(* The time of one unit step at d: 1 / (avgSpeed * Lookup(d, T) / 100).    *)
StepTime(d, avgSpeed, T) == UnitTime(ActualMps(avgSpeed, RelSpeed(d, PATTERNS[T])))

(* The sum of StepTime over the integers of [lo, hi), halving the range.   *)
RECURSIVE SumSteps(_, _, _, _)
SumSteps(lo, hi, avgSpeed, T) ==
    IF lo >= hi THEN 0
    ELSE IF hi = lo + 1 THEN StepTime(lo, avgSpeed, T)
    ELSE LET mid == (lo + hi) \div 2
         IN  SumSteps(lo, mid, avgSpeed, T) + SumSteps(mid, hi, avgSpeed, T)

(* C1: a returned SegmentTime(start, end, avgSpeed, T) is the sum of       *)
(* 1 / (avgSpeed * Lookup(d, T) / 100) over the integers d of              *)
(* [floor(start), floor(end)); over an empty range the call returns 0 for  *)
(* every avgSpeed and never ends in an error.                              *)
C1_SegmentTimeIsUnitSum ==
    /\ it.returned =>
          IF Floor(it.start_m) >= Floor(it.end_m)
          THEN it.total_time = 0
          ELSE /\ it.avg_mps # 0
               /\ it.total_time =
                     SumSteps(Floor(it.start_m), Floor(it.end_m), it.avg_mps, it.pattern)
    /\ entry = "calculate_split_time" /\ Floor(it.start_m) >= Floor(it.end_m) =>
          outcome = "none" /\ pc # "exit"

(* A call over [118.5, 122.5), which crosses the boundary at 120, has      *)
(* returned its four unit steps.                                           *)
C1_Witness ==
    /\ entry = "calculate_split_time" /\ it.returned
    /\ it.start_m = Half(118) /\ it.end_m = Half(122)
    /\ it.avg_mps = 5000 /\ it.pattern = "ALL"
    /\ it.steps = 4
    /\ it.total_time = 2 * StepTime(118, 5000, "ALL") + 2 * StepTime(120, 5000, "ALL")

(* The items of T that contain d: start <= d < end.                        *)
Containing(d, T) ==
    {i \in 1..Len(T) : T[i][1] <= Floor(d) /\ Floor(d) < T[i][2]}

(* C2: Lookup(d, T) is the percentage of the first interval of T, in       *)
(* catalog order, with start <= d < end, and the last interval's           *)
(* percentage for a d no interval contains, d = 800 included.              *)
C2_LookupFirstMatchElseLast ==
    lk.returned =>
        LET T == PATTERNS[arg_pattern]
            M == Containing(lk.distance_m, T)
        IN  /\ M # {} => \E i \in M : (\A j \in M : i <= j) /\ lk.result = T[i][3]
            /\ M = {} => lk.result = T[Len(T)][3]
            /\ lk.distance_m = Metres(800) => M = {} /\ lk.result = T[Len(T)][3]

(* Lookup(800, "ALL") has returned 97.45, the last interval's percentage.  *)
C2_Witness ==
    /\ lk.returned /\ arg_pattern = "ALL"
    /\ lk.distance_m = Metres(800)
    /\ lk.result = 9745

(* A front end has called calc_splits.                                     *)
FrontEnd == entry \in {"main", "app"}

(* The configured boundaries that do not exceed distance, with the 1e-9    *)
(* tolerance.                                                              *)
Qualifying(distance) ==
    {SECTIONS[i][2] : i \in {j \in 1..Len(SECTIONS) :
        \/ SECTIONS[j][2] <= Floor(distance)
        \/ SECTIONS[j][2] = Floor(distance) + 1 /\ SubPerMetre - distance.sub <= EpsSub}}

ExpectedLabels ==
    <<"0~120m", "120~200m", "200~300m", "300~400m",
      "400~500m", "500~600m", "600~700m", "700~800m">>

(* C3: ComputeSplits returns exactly one result per configured boundary    *)
(* not exceeding distance (within the tolerance), in increasing boundary   *)
(* order, each labelled "<prev>~<d>m" from the previous emitted boundary;  *)
(* with no such boundary it returns empty sequences and raises no error.   *)
C3_OneResultPerBoundary ==
    LET n == Cardinality(Qualifying(cs.distance))
    IN  /\ FrontEnd /\ cs.returned =>
              /\ cs.labels = SubSeq(ExpectedLabels, 1, n)
              /\ Len(cs.speeds) = n /\ Len(cs.times) = n
              /\ \A b \in Qualifying(cs.distance) :
                     \E i \in 1..n : cs.split_points[i] = b
              /\ \A i \in 1..(n - 1) : cs.split_points[i] < cs.split_points[i + 1]
        /\ FrontEnd /\ pc \in {"cs_for", "it_for"} /\ n = 0 =>
              pc = "cs_for" /\ outcome = "none" /\ cs.labels = <<>>

(* A distance within 1e-9 below 120 has returned the one section 0~120m.   *)
C3_Witness ==
    /\ entry = "main" /\ cs.returned
    /\ cs.distance = JustBelow(120, 1)
    /\ cs.labels = <<"0~120m">>
    /\ Len(cs.speeds) = 1 /\ Len(cs.times) = 1

(* The boundary pairs (prev, d) of the first n sections.                   *)
PrevBoundary(i) == IF i = 1 THEN 0 ELSE SECTIONS[i - 1][2]

RECURSIVE SumSegments(_, _, _)
SumSegments(n, avgSpeed, T) ==
    IF n = 0 THEN 0
    ELSE SumSegments(n - 1, avgSpeed, T)
         + SumSteps(PrevBoundary(n), SECTIONS[n][2], avgSpeed, T)

(* C4: for a positive distance, a positive average speed and a catalog     *)
(* template the cumulative times are strictly increasing from one section  *)
(* to the next, and each is the sum of the SegmentTime values of the       *)
(* sections up to and including it.                                        *)
C4_CumulativeTimesIncrease ==
    FrontEnd /\ cs.mps > 0 /\ (cs.distance.m > 0 \/ cs.distance.sub > 0) =>
        /\ \A i \in 1..(Len(cs.times) - 1) : cs.times[i] < cs.times[i + 1]
        /\ Len(cs.times) > 0 => cs.times[1] > 0
        /\ cs.returned =>
              \A i \in 1..Len(cs.times) :
                  cs.times[i] = SumSegments(i, cs.mps, cs.pattern)

(* The web form has the eight cumulative times of 800 m in 2:01.35.        *)
C4_Witness ==
    /\ entry = "app" /\ cs.returned /\ cs.mps > 0
    /\ arg_time = T_2_01_35
    /\ Len(cs.times) = 8
    /\ cs.times[1] < cs.times[2] /\ cs.times[7] < cs.times[8]

(* C5: a template name outside the catalog ends in an error reported       *)
(* before any integration step, with no split results.                     *)
C5_UnknownTemplateFailsFast ==
    entry = "main" /\ arg_pattern \notin DOMAIN PATTERNS /\ pc # "main_args" =>
        /\ pc = "exit" /\ outcome = "ArgumentError"
        /\ n_integ = 0 /\ it = NoIntegration /\ cs = NoSplits
        /\ all_results = <<>> /\ total_sec = 0 /\ mps = 0

(* --pattern XYZ has ended the run with the argument error.                *)
C5_Witness ==
    /\ entry = "main" /\ arg_pattern = "XYZ"
    /\ pc = "exit" /\ outcome = "ArgumentError"
    /\ n_integ = 0 /\ all_results = <<>>

(* The texts that are neither "mm:ss[.fraction]" nor a bare seconds value. *)
Malformed == {T_abc, T_1_2_3, T_colon30, T_1colon}

(* parse_time has returned to the front end.                               *)
TimeParsed == FrontEnd /\ pc \notin {"main_args", "main_parse", "app_parse"}
                       /\ outcome \notin {"ArgumentError", "ValueError", "TimeFormatError"}

(* C6: ParseDuration fails on every malformed text and on every text whose *)
(* parsed result is not positive; no such time is returned to the caller   *)
(* or used to derive an average speed.                                     *)
C6_NonPositiveTimeRejected ==
    /\ TimeParsed => arg_time \notin Malformed
    /\ TimeParsed => total_sec > 0
    /\ mps # 0 => total_sec > 0

(* C7: SegmentTime never takes the reciprocal of an instantaneous speed    *)
(* that is not strictly positive and never fails with a division by zero   *)
(* in the middle of the integration.                                       *)
C7_ReciprocalOnlyOfPositiveSpeed ==
    FrontEnd /\ it.steps > 0 => it.actual_mps > 0 /\ outcome # "ZeroDivisionError"

(* 100 %, in the unit of the tables.                                       *)
Hundred == 100 * PctScale

(* C8: for every catalog template and positive average speed a section's  *)
(* speed is above the average exactly when its interval's relative speed   *)
(* is above 100 % and below it exactly when under 100 %; for "ALL" over    *)
(* 800 m the first section is faster and the last slower than the average. *)
C8_SectionSpeedFollowsTemplate ==
    FrontEnd /\ cs.mps > 0 =>
        /\ \A i \in 1..Len(cs.speeds) :
              LET rel == PATTERNS[cs.pattern][i][3]
              IN  /\ cs.speeds[i] > cs.mps <=> rel > Hundred
                  /\ cs.speeds[i] < cs.mps <=> rel < Hundred
        /\ cs.returned /\ cs.pattern = "ALL" /\ cs.distance = Metres(800) =>
              /\ cs.labels[1] = "0~120m" /\ cs.speeds[1] > cs.mps
              /\ cs.labels[8] = "700~800m" /\ cs.speeds[8] < cs.mps

(* 800 m in 2:01.35 under "ALL": 0~120m above, 700~800m below the average. *)
C8_Witness ==
    /\ FrontEnd /\ cs.returned /\ cs.pattern = "ALL"
    /\ cs.distance = Metres(800) /\ total_sec = 121350 /\ cs.mps = 6592
    /\ cs.speeds[1] > cs.mps /\ cs.speeds[8] < cs.mps

RECURSIVE SumTo(_, _)
SumTo(seq, n) == IF n = 0 THEN 0 ELSE SumTo(seq, n - 1) + seq[n]

Largest(S) == IF S = {} THEN 0 ELSE CHOOSE b \in S : \A c \in S : c <= b

PositiveInput == (cs.distance.m > 0 \/ cs.distance.sub > 0) /\ total_sec > 0

(* The sections are contiguous from 0: each starts where the one before    *)
(* ended and has a positive length.                                        *)
Contiguous ==
    \A i \in 1..Len(cs.seg_lens) :
        /\ cs.seg_lens[i] > 0
        /\ cs.labels[i] = ToString(SumTo(cs.seg_lens, i - 1)) \o "~"
                          \o ToString(SumTo(cs.seg_lens, i)) \o "m"

(* C9 as claimed: the section lengths sum to the largest configured        *)
(* boundary not exceeding distance (0 when there is none), contiguous from *)
(* 0, and nothing beyond that boundary is reported.                        *)
C9_LengthsSumToLargestBoundaryBelow ==
    FrontEnd /\ cs.returned /\ PositiveInput =>
        LET B == Largest({SECTIONS[i][2] : i \in {j \in 1..Len(SECTIONS) :
                             SECTIONS[j][2] <= Floor(cs.distance)}})
        IN  /\ SumTo(cs.seg_lens, Len(cs.seg_lens)) = B
            /\ cs.prev_d = B
            /\ Contiguous

(* C9 as amended: the section lengths sum to the largest configured        *)
(* boundary not exceeding distance + 1e-9 (0 when there is none),          *)
(* contiguous from 0, and nothing beyond that boundary is reported.        *)
C9_LengthsSumToLargestBoundaryWithinEps ==
    FrontEnd /\ cs.returned /\ PositiveInput =>
        LET B == Largest(Qualifying(cs.distance))
        IN  /\ SumTo(cs.seg_lens, Len(cs.seg_lens)) = B
            /\ cs.prev_d = B
            /\ Contiguous

(* 250.5 m: the sections 0~120m and 120~200m, 200 m in all.                *)
C9_Witness ==
    /\ FrontEnd /\ cs.returned /\ PositiveInput
    /\ cs.distance = Half(250)
    /\ cs.seg_lens = <<120, 80>>
    /\ cs.prev_d = 200

(* The course of the catalog: [0, 800).                                    *)
CourseEnd == SECTIONS[Len(SECTIONS)][2]

(* Every template is the section list with a positive percentage on each   *)
(* interval, contiguous from 0 to the end of the course.                   *)
TemplatesCoverCourse ==
    \A k \in DOMAIN PATTERNS :
        LET T == PATTERNS[k]
        IN  /\ Len(T) = Len(SECTIONS)
            /\ T[1][1] = 0 /\ T[Len(T)][2] = CourseEnd
            /\ \A i \in 1..Len(T) :
                  /\ <<T[i][1], T[i][2]>> = SECTIONS[i]
                  /\ T[i][1] < T[i][2]
                  /\ T[i][3] > 0
            /\ \A i \in 1..(Len(T) - 1) : T[i][2] = T[i + 1][1]
            /\ \A d \in 0..(CourseEnd - 1) : Cardinality(Containing(Metres(d), T)) = 1

(* The point of the last lookup of the integration.                        *)
LastLookup == IF pc = "exit" THEN it.d ELSE it.d - 1

(* C10: the four templates are contiguous, non-overlapping half-open       *)
(* intervals covering [0, 800), equal to the section boundaries, with      *)
(* positive percentages; every lookup at a d of [0, 800) is answered by    *)
(* exactly one interval, never by the last-interval fallback.              *)
C10_TemplatesPartitionCourse ==
    /\ TemplatesCoverCourse
    /\ it.steps > 0 /\ 0 <= LastLookup /\ LastLookup < CourseEnd =>
          LET M == Containing(Metres(LastLookup), PATTERNS[it.pattern])
          IN  /\ Cardinality(M) = 1
              /\ \A i \in M : it.rel_speed = PATTERNS[it.pattern][i][3]
    /\ lk.returned /\ Floor(lk.distance_m) < CourseEnd =>
          LET M == Containing(lk.distance_m, PATTERNS[arg_pattern])
          IN  /\ Cardinality(M) = 1
              /\ \A i \in M : lk.result = PATTERNS[arg_pattern][i][3]

(* The integration under "NEG" has looked up d = 799 in the last interval. *)
C10_Witness ==
    /\ FrontEnd /\ it.steps > 0 /\ it.pattern = "NEG"
    /\ LastLookup = 799
    /\ it.rel_speed = 10046

====
